---- MODULE Spec2Model ----
(***************************************************************************)
(* Bounded MPMC asynchronous channel over a fixed-capacity ring buffer.    *)
(*                                                                         *)
(*   src/src/ring_buffer.rs   RingBuffer: new, push, pop, is_empty, is_full*)
(*   src/src/channel.rs       channel, Sender, Receiver, SendFuture::poll, *)
(*                            RecvFuture::poll                             *)
(*   src/src/channel_repl.rs  SendFutureRepl::poll                         *)
(*                                                                         *)
(* Every step below is one access to shared state: a load of an atomic, a  *)
(* push or pop under the buffer lock, or one critical section of a         *)
(* wait-list mutex.  Steps of different tasks interleave freely.  Atomic   *)
(* loads are taken to be sequentially consistent.                          *)
(***************************************************************************)
EXTENDS Integers, Sequences, FiniteSets, Bags, TLC

\* ---------------------------------------------------------------- bounds
MaxCap == 4          \* capacities of the channels explored: powers of two <= MaxCap
MaxSends == 3        \* send futures created, over all producers
MaxProbe == 64       \* capacities handed to the constructor: 0..MaxProbe
MaxCancel == 1       \* futures dropped while pending
MaxPushes == 6       \* push calls made on a buffer used without a channel
MaxWaiters == 2      \* length of a wait-list beyond which no unprompted poll is made

Producers == {"p1", "p2"}      \* tasks that may own a Sender handle
Consumers == {"c1", "c2"}      \* tasks that may own a Receiver handle
Tasks == Producers \cup Consumers
Variants == {"SendFuture", "SendFutureRepl"}

None == <<>>                   \* Option::None
Uninit == <<"uninit">>         \* a MaybeUninit slot holding no value
Val(p, n) == <<p, n>>          \* the n-th value sent by producer p
Values == {Val(p, n) : p \in Producers, n \in 1..MaxSends}

VARIABLES
    phase,              \* "start" | "open" | "panicked": before / after channel();
                        \* "ring": a RingBuffer without a channel; "dropped": after Drop
    request,            \* the capacity handed to channel()
    variant,            \* which send future the channel uses
    buffer,             \* ChannelInner.buffer: [buffer, capacity, head, tail]
    waiting_senders,    \* ChannelInner.waiting_senders: VecDeque<Waker>
    waiting_receivers,  \* ChannelInner.waiting_receivers: VecDeque<Waker>
    sender_count,       \* Arc::strong_count(&inner.sender_count)
    sender,             \* per producer task: its Sender handle, "none" | "live" | "dropped"
    receiver,           \* per consumer task: its Receiver handle
    spc,                \* per producer: position in SendFuture::poll
    value,              \* per producer: SendFuture.value (None once taken)
    next,               \* per producer: sequence number of its next send
    s_local,            \* per producer: locals of the poll in flight
    s_res,              \* per producer: what its last poll returned
    rpc,                \* per consumer: position in RecvFuture::poll
    r_local,            \* per consumer: locals of the poll in flight
    r_res,              \* per consumer: what its last poll returned
    woken,              \* per task: Waker::wake was called since it last resumed
    accepted,           \* history: values whose push returned Ok, in push order
    sentOk,             \* history: values whose send returned Ready(Ok(()))
    popped,             \* history: values returned by pop, in pop order
    released,           \* history: values released by Drop for RingBuffer
    cancels,            \* history: futures dropped while pending
    solo,               \* history, per consumer: no other recv poll overlapped this one
    held                \* per task: the locks whose MutexGuard it holds

vars == <<phase, request, variant, buffer, waiting_senders, waiting_receivers,
          sender_count, sender, receiver, spc, value, next, s_local, s_res,
          rpc, r_local, r_res, woken, accepted, sentOk, popped, released, cancels, solo,
          held>>

\* ------------------------------------------------------------ ring buffer

RECURSIVE count_ones(_)
count_ones(n) == IF n = 0 THEN 0 ELSE (n % 2) + count_ones(n \div 2)

\* the bit trick n & (n - 1) == 0, which also accepts 0
is_power_of_two_or_zero(n) == n = 0 \/ count_ones(n) = 1

is_power_of_two(n) == count_ones(n) = 1

NoBuffer == [buffer |-> <<>>, capacity |-> -1, head |-> -1, tail |-> -1]

\* RingBuffer::new, after its assertion: every slot uninitialized, cursors 0
RingBuffer_new(cap) ==
    [buffer |-> [i \in 0..(cap - 1) |-> Uninit], capacity |-> cap, head |-> 0, tail |-> 0]

is_empty(rb) == rb.head = rb.tail

\* the successor of head taken without the modulo
is_full_nowrap(rb) == rb.head + 1 = rb.tail

is_full(rb) == (rb.head + 1) % rb.capacity = rb.tail

\* a push that advances head without the modulo
push_nowrap(rb, v) ==
    IF is_full(rb)
    THEN [ok |-> FALSE, rejected |-> v, rb |-> rb]
    ELSE [ok |-> TRUE, rejected |-> None,
          rb |-> [rb EXCEPT !.buffer[rb.head] = v, !.head = rb.head + 1]]

\* a push that omits the is_full test
push_overwrite(rb, v) ==
    [ok |-> TRUE, rejected |-> None,
     rb |-> [rb EXCEPT !.buffer[rb.head] = v, !.head = (rb.head + 1) % rb.capacity]]

\* RingBuffer::push under the buffer lock: the result and the buffer after it
push(rb, v) ==
    LET head == rb.head
        next_head == (head + 1) % rb.capacity
    IN  IF is_full(rb)
        THEN [ok |-> FALSE, rejected |-> v, rb |-> rb]
        ELSE [ok |-> TRUE, rejected |-> None,
              rb |-> [rb EXCEPT !.buffer[head] = v, !.head = next_head]]

\* a pop that advances tail without the modulo
pop_nowrap(rb) ==
    IF is_empty(rb)
    THEN [val |-> None, rb |-> rb]
    ELSE [val |-> rb.buffer[rb.tail],
          rb |-> [rb EXCEPT !.buffer[rb.tail] = Uninit, !.tail = rb.tail + 1]]

\* a pop that returns the oldest value and leaves it in the buffer
pop_peek(rb) ==
    IF is_empty(rb)
    THEN [val |-> None, rb |-> rb]
    ELSE [val |-> rb.buffer[rb.tail], rb |-> rb]

\* a pop that takes the newest value, the one before head, instead of the oldest
pop_lifo(rb) ==
    LET last == (rb.head + rb.capacity - 1) % rb.capacity
    IN  IF is_empty(rb)
        THEN [val |-> None, rb |-> rb]
        ELSE [val |-> rb.buffer[last],
              rb |-> [rb EXCEPT !.buffer[last] = Uninit, !.head = last]]

\* RingBuffer::pop under the buffer lock: the value moved out and the buffer after it
pop(rb) ==
    LET tail == rb.tail
        next_tail == (tail + 1) % rb.capacity
    IN  IF is_empty(rb)
        THEN [val |-> None, rb |-> rb]
        ELSE [val |-> rb.buffer[tail],
              rb |-> [rb EXCEPT !.buffer[tail] = Uninit, !.tail = next_tail]]

\* the values resident in the buffer, oldest first
RECURSIVE Walk(_, _)
Walk(rb, i) == IF i = rb.head THEN <<>> ELSE <<rb.buffer[i]>> \o Walk(rb, (i + 1) % rb.capacity)
Resident(rb) == Walk(rb, rb.tail)

\* a destructor that releases every slot of the buffer
RingBuffer_drop_all(rb) == [i \in 1..rb.capacity |-> rb.buffer[i - 1]]

\* Drop for RingBuffer: the values released, walking from tail up to head
RingBuffer_drop(rb) == Walk(rb, rb.tail)

\* ---------------------------------------------------------------- channel

\* a test that also discounts the polling Sender's own reference
send_senders_alive_strict(count) == count > 2

\* the live-producer test of SendFuture::poll
send_senders_alive(count) == count >= 1

\* the live-producer test of SendFutureRepl::poll
repl_sender_count(count) == count > 1

\* a test that is off by one
recv_senders_alive_off_by_one(count) == count > 2

\* the live-producer test of RecvFuture::poll
recv_senders_alive(count) == count > 1

\* the close test of SendFutureRepl::poll
repl_closed(buffer_empty, alive) == buffer_empty /\ ~alive

\* a close test that forgets the buffer
recv_closed_ignores_buffer(alive, buffer_empty) == ~alive

\* the close test of RecvFuture::poll
recv_closed(alive, buffer_empty) == ~alive /\ buffer_empty

\* a wake that takes the newest entry, VecDeque::pop_back
wake_back(list, flags) ==
    IF list = <<>> THEN [list |-> list, flags |-> flags]
    ELSE [list |-> SubSeq(list, 1, Len(list) - 1),
          flags |-> [flags EXCEPT ![list[Len(list)]] = TRUE]]

\* VecDeque::pop_front followed by Waker::wake on what it returned
wake_front(list, flags) ==
    IF list = <<>> THEN [list |-> list, flags |-> flags]
    ELSE [list |-> Tail(list), flags |-> [flags EXCEPT ![Head(list)] = TRUE]]

\* VecDeque::push_back(cx.waker().clone())
register(list, task) == Append(list, task)

\* the three mutexes: RingBuffer.lock and the two wait-list mutexes
Locks == {"buffer", "waiting_senders", "waiting_receivers"}

\* a MutexGuard that is never dropped
release_never(h, t, lock) == h

\* the MutexGuard of lock held by task t is dropped
release(h, t, lock) == [h EXCEPT ![t] = h[t] \ {lock}]

\* Mutex::lock returned to task t
acquire(h, t, lock) == [h EXCEPT ![t] = h[t] \cup {lock}]

NoLocals == [alive |-> FALSE, head |-> -1, val |-> None]
NoResult == [kind |-> "none", val |-> None]

\* channel(capacity): the shared state and the two handles it returns
channel(cap) ==
    [buffer |-> RingBuffer_new(cap),
     waiting_senders |-> <<>>,
     waiting_receivers |-> <<>>,
     sender_count |-> 2,
     sender |-> [p \in Producers |-> IF p = "p1" THEN "live" ELSE "none"],
     receiver |-> [c \in Consumers |-> IF c = "c1" THEN "live" ELSE "none"]]

\* the tasks and the history before any operation
Fresh ==
    /\ spc = [p \in Producers |-> "idle"]
    /\ value = [p \in Producers |-> None]
    /\ next = [p \in Producers |-> 1]
    /\ s_local = [p \in Producers |-> NoLocals]
    /\ s_res = [p \in Producers |-> "none"]
    /\ rpc = [c \in Consumers |-> "idle"]
    /\ r_local = [c \in Consumers |-> NoLocals]
    /\ r_res = [c \in Consumers |-> NoResult]
    /\ woken = [t \in Tasks |-> FALSE]
    /\ accepted = <<>>
    /\ sentOk = {}
    /\ popped = <<>>
    /\ released = <<>>
    /\ cancels = 0
    /\ solo = [c \in Consumers |-> FALSE]
    /\ held = [t \in Tasks |-> {}]

\* the state right after channel(cap) returned, cap a power of two
Init ==
    /\ phase = "open"
    /\ variant \in Variants
    /\ request \in {c \in 1..MaxCap : is_power_of_two(c)}
    /\ buffer = channel(request).buffer
    /\ waiting_senders = channel(request).waiting_senders
    /\ waiting_receivers = channel(request).waiting_receivers
    /\ sender_count = channel(request).sender_count
    /\ sender = channel(request).sender
    /\ receiver = channel(request).receiver
    /\ Fresh

\* the state before channel(request) is called
InitNew ==
    /\ phase = "start"
    /\ variant \in Variants
    /\ request \in 0..MaxProbe
    /\ buffer = NoBuffer
    /\ waiting_senders = <<>>
    /\ waiting_receivers = <<>>
    /\ sender_count = 0
    /\ sender = [p \in Producers |-> "none"]
    /\ receiver = [c \in Consumers |-> "none"]
    /\ Fresh

shared == <<buffer, waiting_senders, waiting_receivers, sender_count, sender, receiver>>
tasks == <<spc, value, next, s_local, s_res, rpc, r_local, r_res, woken>>
history == <<accepted, sentOk, popped, released, cancels, solo>>

\* channel(request): RingBuffer::new asserts the capacity is a power of two
Channel ==
    /\ phase = "start"
    /\ IF is_power_of_two(request)
       THEN /\ phase' = "open"
            /\ buffer' = channel(request).buffer
            /\ waiting_senders' = channel(request).waiting_senders
            /\ waiting_receivers' = channel(request).waiting_receivers
            /\ sender_count' = channel(request).sender_count
            /\ sender' = channel(request).sender
            /\ receiver' = channel(request).receiver
       ELSE /\ phase' = "panicked"
            /\ UNCHANGED shared
    /\ UNCHANGED <<request, variant, held, tasks, history>>

\* ------------------------------------------------------------ Sender side

NoLiveSender == \A p \in Producers : sender[p] # "live"

RecvMidPoll == {"r_head", "r_tail", "r_pop", "r_wake", "r_reg"}

\* send futures created so far, over all producers
RECURSIVE Created(_)
Created(ps) ==
    IF ps = {} THEN 0
    ELSE LET p == CHOOSE q \in ps : TRUE IN (next[p] - 1) + Created(ps \ {p})

\* Both send futures begin a poll by loading the strong count of sender_count;
\* SendFuture::poll tests it at once, SendFutureRepl::poll after is_empty()
SendPollBegin(p) ==
    /\ IF variant = "SendFuture"
       THEN IF send_senders_alive(sender_count)
            THEN /\ spc' = [spc EXCEPT ![p] = "s_push"]
                 /\ s_res' = [s_res EXCEPT ![p] = "polling"]
                 /\ UNCHANGED s_local
            ELSE /\ spc' = [spc EXCEPT ![p] = "failed"]
                 /\ s_res' = [s_res EXCEPT ![p] = "ErrClosed"]
                 /\ UNCHANGED s_local
       ELSE /\ spc' = [spc EXCEPT ![p] = "s_head"]
            /\ s_res' = [s_res EXCEPT ![p] = "polling"]
            /\ s_local' = [s_local EXCEPT ![p].alive = repl_sender_count(sender_count)]
    /\ UNCHANGED <<phase, request, variant, held, shared, rpc, r_local, r_res, history>>

\* A poll of a send future begins: the first poll of a new future
\* (Sender::send, then .await), or the poll of a suspended task that was woken
SendPoll(p) ==
    /\ phase = "open"
    /\ sender[p] = "live"
    /\ \/ /\ spc[p] = "idle" /\ Created(Producers) < MaxSends
          /\ value' = [value EXCEPT ![p] = Val(p, next[p])]
          /\ next' = [next EXCEPT ![p] = next[p] + 1]
          /\ UNCHANGED woken
       \/ /\ spc[p] = "pending" /\ woken[p]
          /\ woken' = [woken EXCEPT ![p] = FALSE]
          /\ UNCHANGED <<value, next>>
    /\ SendPollBegin(p)

\* A send future that has returned Ready(Ok(())) is polled again
SendPollAgain(p) ==
    /\ phase = "open"
    /\ sender[p] = "live"
    /\ spc[p] = "idle" /\ s_res[p] = "Ok"
    /\ UNCHANGED <<value, next, woken>>
    /\ SendPollBegin(p)

\* A suspended send future is polled again although nothing woke it, as
\* Future::poll allows (the task was resumed for another reason)
SendRepoll(p) ==
    /\ phase = "open"
    /\ sender[p] = "live"
    /\ spc[p] = "pending" /\ ~woken[p]
    /\ Len(waiting_senders) < MaxWaiters
    /\ UNCHANGED <<value, next, woken>>
    /\ SendPollBegin(p)

\* SendFutureRepl::poll, is_empty(): the load of head
SendReplLoadHead(p) ==
    /\ spc[p] = "s_head"
    /\ s_local' = [s_local EXCEPT ![p].head = buffer.head]
    /\ spc' = [spc EXCEPT ![p] = "s_tail"]
    /\ UNCHANGED <<phase, request, variant, held, shared, value, next, s_res,
                   rpc, r_local, r_res, woken, history>>

\* SendFutureRepl::poll, is_empty(): the load of tail, then the close test
SendReplLoadTail(p) ==
    /\ spc[p] = "s_tail"
    /\ LET buffer_empty == is_empty([head |-> s_local[p].head, tail |-> buffer.tail])
       IN  IF repl_closed(buffer_empty, s_local[p].alive)
           THEN /\ spc' = [spc EXCEPT ![p] = "failed"]
                /\ s_res' = [s_res EXCEPT ![p] = "ErrClosed"]
           ELSE /\ spc' = [spc EXCEPT ![p] = "s_push"]
                /\ UNCHANGED s_res
    /\ s_local' = [s_local EXCEPT ![p] = NoLocals]
    /\ UNCHANGED <<phase, request, variant, held, shared, value, next,
                   rpc, r_local, r_res, woken, history>>

\* a poll that pushes a copy of the value and leaves the original in the future
SendPush_keeps_value(p) ==
    /\ spc[p] = "s_push"
    /\ held' = release(held, p, "buffer")
    /\ IF value[p] = None
       THEN /\ spc' = [spc EXCEPT ![p] = "pending"]
            /\ s_res' = [s_res EXCEPT ![p] = "Pending"]
            /\ UNCHANGED <<buffer, value, s_local, accepted>>
       ELSE LET r == push(buffer, value[p])
            IN  /\ buffer' = r.rb
                /\ s_local' = [s_local EXCEPT ![p].val = IF r.ok THEN value[p] ELSE r.rejected]
                /\ spc' = [spc EXCEPT ![p] = IF r.ok THEN "s_wake" ELSE "s_reg"]
                /\ accepted' = IF r.ok THEN Append(accepted, value[p]) ELSE accepted
                /\ UNCHANGED <<s_res, value>>
    /\ UNCHANGED <<phase, request, variant, waiting_senders, waiting_receivers,
                   sender_count, sender, receiver, next, rpc, r_local, r_res, woken,
                   sentOk, popped, released, cancels, solo>>

\* value.take(), then RingBuffer::push under the buffer lock
SendPush(p) ==
    /\ spc[p] = "s_push"
    /\ held' = release(held, p, "buffer")
    /\ IF value[p] = None
       THEN /\ spc' = [spc EXCEPT ![p] = "pending"]
            /\ s_res' = [s_res EXCEPT ![p] = "Pending"]
            /\ UNCHANGED <<buffer, value, s_local, accepted>>
       ELSE LET r == push(buffer, value[p])
            IN  /\ buffer' = r.rb
                /\ value' = [value EXCEPT ![p] = None]
                /\ s_local' = [s_local EXCEPT ![p].val = IF r.ok THEN value[p] ELSE r.rejected]
                /\ spc' = [spc EXCEPT ![p] = IF r.ok THEN "s_wake" ELSE "s_reg"]
                /\ accepted' = IF r.ok THEN Append(accepted, value[p]) ELSE accepted
                /\ UNCHANGED s_res
    /\ UNCHANGED <<phase, request, variant, waiting_senders, waiting_receivers,
                   sender_count, sender, receiver, next, rpc, r_local, r_res, woken,
                   sentOk, popped, released, cancels, solo>>

\* push returned Ok: wake the front of waiting_receivers, return Ready(Ok(()))
SendWake(p) ==
    /\ spc[p] = "s_wake"
    /\ held' = release(held, p, "waiting_receivers")
    /\ LET w == wake_front(waiting_receivers, woken)
       IN  /\ waiting_receivers' = w.list
           /\ woken' = w.flags
    /\ sentOk' = sentOk \cup {s_local[p].val}
    /\ s_local' = [s_local EXCEPT ![p] = NoLocals]
    /\ s_res' = [s_res EXCEPT ![p] = "Ok"]
    /\ spc' = [spc EXCEPT ![p] = "idle"]
    /\ UNCHANGED <<phase, request, variant, buffer, waiting_senders, sender_count,
                   sender, receiver, value, next, rpc, r_local, r_res,
                   accepted, popped, released, cancels, solo>>

\* a suspension that leaves the future without its value
SendRegister_forgets_value(p) ==
    /\ spc[p] = "s_reg"
    /\ held' = release(held, p, "waiting_senders")
    /\ waiting_senders' = register(waiting_senders, p)
    /\ s_local' = [s_local EXCEPT ![p] = NoLocals]
    /\ s_res' = [s_res EXCEPT ![p] = "Pending"]
    /\ spc' = [spc EXCEPT ![p] = "pending"]
    /\ UNCHANGED <<phase, request, variant, buffer, waiting_receivers, sender_count,
                   sender, receiver, value, next, rpc, r_local, r_res, woken, history>>

\* push returned Err(rejected): register in waiting_senders, put the value
\* back, return Pending
SendRegister(p) ==
    /\ spc[p] = "s_reg"
    /\ held' = release(held, p, "waiting_senders")
    /\ waiting_senders' = register(waiting_senders, p)
    /\ value' = [value EXCEPT ![p] = s_local[p].val]
    /\ s_local' = [s_local EXCEPT ![p] = NoLocals]
    /\ s_res' = [s_res EXCEPT ![p] = "Pending"]
    /\ spc' = [spc EXCEPT ![p] = "pending"]
    /\ UNCHANGED <<phase, request, variant, buffer, waiting_receivers, sender_count,
                   sender, receiver, next, rpc, r_local, r_res, woken, history>>

\* a suspended send future is dropped before it completed
CancelSend(p) ==
    /\ spc[p] = "pending"
    /\ cancels < MaxCancel
    /\ cancels' = cancels + 1
    /\ value' = [value EXCEPT ![p] = None]
    /\ s_res' = [s_res EXCEPT ![p] = "Cancelled"]
    /\ spc' = [spc EXCEPT ![p] = "idle"]
    /\ UNCHANGED <<phase, request, variant, held, shared, next, s_local, rpc, r_local,
                   r_res, woken, accepted, sentOk, popped, released, solo>>

\* ---------------------------------------------------------- Receiver side

\* A poll of a recv future begins (Receiver::recv then .await, or the poll of
\* a suspended task that was woken): the load of the strong count
RecvPoll(c) ==
    /\ phase = "open"
    /\ receiver[c] = "live"
    /\ \/ /\ rpc[c] = "idle"
          /\ UNCHANGED woken
       \/ /\ rpc[c] = "pending" /\ woken[c]
          /\ woken' = [woken EXCEPT ![c] = FALSE]
    /\ r_local' = [r_local EXCEPT ![c].alive = recv_senders_alive(sender_count)]
    /\ rpc' = [rpc EXCEPT ![c] = "r_head"]
    /\ r_res' = [r_res EXCEPT ![c] = [kind |-> "polling", val |-> None]]
    /\ solo' = [d \in Consumers |->
                   IF d = c THEN \A e \in Consumers \ {c} : rpc[e] \notin RecvMidPoll
                   ELSE IF rpc[d] \in RecvMidPoll THEN FALSE ELSE solo[d]]
    /\ UNCHANGED <<phase, request, variant, held, shared, spc, value, next, s_local, s_res,
                   accepted, sentOk, popped, released, cancels>>

\* A suspended recv future is polled again although nothing woke it
RecvRepoll(c) ==
    /\ phase = "open"
    /\ receiver[c] = "live"
    /\ rpc[c] = "pending" /\ ~woken[c]
    /\ Len(waiting_receivers) < MaxWaiters
    /\ r_local' = [r_local EXCEPT ![c].alive = recv_senders_alive(sender_count)]
    /\ rpc' = [rpc EXCEPT ![c] = "r_head"]
    /\ r_res' = [r_res EXCEPT ![c] = [kind |-> "polling", val |-> None]]
    /\ solo' = [d \in Consumers |->
                   IF d = c THEN \A e \in Consumers \ {c} : rpc[e] \notin RecvMidPoll
                   ELSE IF rpc[d] \in RecvMidPoll THEN FALSE ELSE solo[d]]
    /\ UNCHANGED <<phase, request, variant, held, shared, spc, value, next, s_local, s_res,
                   woken, accepted, sentOk, popped, released, cancels>>

\* is_empty(): the load of head
RecvLoadHead(c) ==
    /\ rpc[c] = "r_head"
    /\ r_local' = [r_local EXCEPT ![c].head = buffer.head]
    /\ rpc' = [rpc EXCEPT ![c] = "r_tail"]
    /\ UNCHANGED <<phase, request, variant, held, shared, spc, value, next, s_local, s_res,
                   r_res, woken, history>>

\* is_empty(): the load of tail, then the close test
RecvLoadTail(c) ==
    /\ rpc[c] = "r_tail"
    /\ LET buffer_empty == is_empty([head |-> r_local[c].head, tail |-> buffer.tail])
       IN  IF recv_closed(r_local[c].alive, buffer_empty)
           THEN /\ rpc' = [rpc EXCEPT ![c] = "idle"]
                /\ r_res' = [r_res EXCEPT ![c] = [kind |-> "None", val |-> None]]
                /\ r_local' = [r_local EXCEPT ![c] = NoLocals]
           ELSE /\ rpc' = [rpc EXCEPT ![c] = "r_pop"]
                /\ r_local' = [r_local EXCEPT ![c].head = -1]
                /\ UNCHANGED r_res
    /\ UNCHANGED <<phase, request, variant, held, shared, spc, value, next, s_local, s_res,
                   woken, history>>

\* RingBuffer::pop under the buffer lock
RecvPop(c) ==
    /\ rpc[c] = "r_pop"
    /\ held' = release(held, c, "buffer")
    /\ LET r == pop(buffer)
       IN  /\ buffer' = r.rb
           /\ r_local' = [r_local EXCEPT ![c].val = r.val]
           /\ rpc' = [rpc EXCEPT ![c] = IF r.val = None THEN "r_reg" ELSE "r_wake"]
           /\ popped' = IF r.val = None THEN popped ELSE Append(popped, r.val)
    /\ UNCHANGED <<phase, request, variant, waiting_senders, waiting_receivers,
                   sender_count, sender, receiver, spc, value, next, s_local, s_res,
                   r_res, woken, accepted, sentOk, released, cancels, solo>>

\* pop returned Some(val): wake the front of waiting_senders, return Ready(Some(val))
RecvWake(c) ==
    /\ rpc[c] = "r_wake"
    /\ held' = release(held, c, "waiting_senders")
    /\ LET w == wake_front(waiting_senders, woken)
       IN  /\ waiting_senders' = w.list
           /\ woken' = w.flags
    /\ r_res' = [r_res EXCEPT ![c] = [kind |-> "Some", val |-> r_local[c].val]]
    /\ r_local' = [r_local EXCEPT ![c] = NoLocals]
    /\ rpc' = [rpc EXCEPT ![c] = "idle"]
    /\ UNCHANGED <<phase, request, variant, buffer, waiting_receivers, sender_count,
                   sender, receiver, spc, value, next, s_local, s_res, history>>

\* pop returned None: register in waiting_receivers, return Pending
RecvRegister(c) ==
    /\ rpc[c] = "r_reg"
    /\ held' = release(held, c, "waiting_receivers")
    /\ waiting_receivers' = register(waiting_receivers, c)
    /\ r_res' = [r_res EXCEPT ![c] = [kind |-> "Pending", val |-> None]]
    /\ r_local' = [r_local EXCEPT ![c].val = None]
    /\ rpc' = [rpc EXCEPT ![c] = "pending"]
    /\ UNCHANGED <<phase, request, variant, buffer, waiting_senders, sender_count,
                   sender, receiver, spc, value, next, s_local, s_res, woken, history>>

\* a suspended recv future is dropped before it completed
CancelRecv(c) ==
    /\ rpc[c] = "pending"
    /\ cancels < MaxCancel
    /\ cancels' = cancels + 1
    /\ r_res' = [r_res EXCEPT ![c] = [kind |-> "Cancelled", val |-> None]]
    /\ r_local' = [r_local EXCEPT ![c] = NoLocals]
    /\ rpc' = [rpc EXCEPT ![c] = "idle"]
    /\ UNCHANGED <<phase, request, variant, held, shared, spc, value, next, s_local, s_res,
                   woken, accepted, sentOk, popped, released, solo>>

\* ----------------------------------------------------------------- handles

\* a teardown that runs as soon as no Sender is left
Teardown_without_senders(senders, receivers) ==
    IF \A p \in Producers : senders[p] # "live"
    THEN /\ phase' = "dropped"
         /\ released' = RingBuffer_drop(buffer)
    ELSE UNCHANGED <<phase, released>>

\* dropping the last handle of either kind drops ChannelInner and its buffer
Teardown(senders, receivers) ==
    IF (\A p \in Producers : senders[p] # "live") /\ (\A c \in Consumers : receivers[c] # "live")
    THEN /\ phase' = "dropped"
         /\ released' = RingBuffer_drop(buffer)
    ELSE UNCHANGED <<phase, released>>

\* a clone that shares the channel but takes no reference to sender_count
CloneSender_uncounted(p, q) ==
    /\ phase = "open"
    /\ sender[p] = "live" /\ spc[p] = "idle"
    /\ sender[q] = "none"
    /\ sender' = [sender EXCEPT ![q] = "live"]
    /\ UNCHANGED <<phase, request, variant, held, buffer, waiting_senders, waiting_receivers,
                   sender_count, receiver, tasks, history>>

\* Clone for Sender: one more reference to sender_count
CloneSender(p, q) ==
    /\ phase = "open"
    /\ sender[p] = "live" /\ spc[p] = "idle"
    /\ sender[q] = "none"
    /\ sender' = [sender EXCEPT ![q] = "live"]
    /\ sender_count' = sender_count + 1
    /\ UNCHANGED <<phase, request, variant, held, buffer, waiting_senders, waiting_receivers,
                   receiver, tasks, history>>

\* a Sender handle is dropped: one reference to sender_count less
DropSender(p) ==
    /\ phase = "open"
    /\ sender[p] = "live" /\ spc[p] = "idle"
    /\ sender' = [sender EXCEPT ![p] = "dropped"]
    /\ sender_count' = sender_count - 1
    /\ Teardown(sender', receiver)
    /\ UNCHANGED <<request, variant, held, buffer, waiting_senders, waiting_receivers,
                   receiver, tasks, accepted, sentOk, popped, cancels, solo>>

\* Clone for Receiver: sender_count is not touched
CloneReceiver(c, d) ==
    /\ phase = "open"
    /\ receiver[c] = "live" /\ rpc[c] = "idle"
    /\ receiver[d] = "none"
    /\ receiver' = [receiver EXCEPT ![d] = "live"]
    /\ UNCHANGED <<phase, request, variant, held, buffer, waiting_senders, waiting_receivers,
                   sender_count, sender, tasks, history>>

\* a Receiver handle is dropped
DropReceiver(c) ==
    /\ phase = "open"
    /\ receiver[c] = "live" /\ rpc[c] = "idle"
    /\ receiver' = [receiver EXCEPT ![c] = "dropped"]
    /\ Teardown(sender, receiver')
    /\ UNCHANGED <<request, variant, held, buffer, waiting_senders, waiting_receivers,
                   sender_count, sender, tasks, accepted, sentOk, popped, cancels, solo>>

\* ------------------------------------------------------------------- locks

\* where task t is in its poll
pc(t) == IF t \in Producers THEN spc[t] ELSE rpc[t]

\* the positions of a poll at which a Mutex::lock call comes next unless its
\* guard is held, and the mutex locked there: RingBuffer.lock inside
\* push and pop, a wait-list mutex around pop_front and push_back
LockAt ==
    [s_push |-> "buffer", s_wake |-> "waiting_receivers", s_reg |-> "waiting_senders",
     r_pop |-> "buffer", r_wake |-> "waiting_senders", r_reg |-> "waiting_receivers"]

AtLock(t) == pc(t) \in DOMAIN LockAt
\* t is inside the critical section of the mutex locked at its position
InSection(t) == AtLock(t) /\ LockAt[pc(t)] \in held[t]
\* t is blocked in Mutex::lock on a mutex whose guard another task holds
Blocked(t) ==
    /\ AtLock(t) /\ LockAt[pc(t)] \notin held[t]
    /\ \E u \in Tasks \ {t} : LockAt[pc(t)] \in held[u]

\* Mutex::lock: returns once no task holds the guard of that mutex
Lock(t) ==
    /\ phase = "open"
    /\ AtLock(t) /\ ~InSection(t)
    /\ \A u \in Tasks : LockAt[pc(t)] \notin held[u]
    /\ held' = acquire(held, t, LockAt[pc(t)])
    /\ UNCHANGED <<phase, request, variant, shared, tasks, history>>

\* ------------------------------------------- the ring buffer used directly

\* the state right after RingBuffer::new(cap) returned, cap a power of two,
\* with no channel around the buffer
InitRing ==
    /\ phase = "ring"
    /\ variant = "SendFuture"
    /\ request \in {c \in 1..MaxCap : is_power_of_two(c)}
    /\ buffer = RingBuffer_new(request)
    /\ waiting_senders = <<>>
    /\ waiting_receivers = <<>>
    /\ sender_count = 0
    /\ sender = [p \in Producers |-> "none"]
    /\ receiver = [c \in Consumers |-> "none"]
    /\ Fresh

\* rb.push(v) with a fresh value v; the caller keeps the Result
RingPush ==
    /\ phase = "ring"
    /\ next["p1"] <= MaxPushes
    /\ LET v == Val("p1", next["p1"])
           r == push(buffer, v)
       IN  /\ buffer' = r.rb
           /\ s_res' = [s_res EXCEPT !["p1"] = IF r.ok THEN "Ok" ELSE "Err"]
           /\ s_local' = [s_local EXCEPT !["p1"].val = r.rejected]
           /\ accepted' = IF r.ok THEN Append(accepted, v) ELSE accepted
    /\ next' = [next EXCEPT !["p1"] = next["p1"] + 1]
    /\ UNCHANGED <<phase, request, variant, held, waiting_senders, waiting_receivers,
                   sender_count, sender, receiver, spc, value, rpc, r_local, r_res,
                   woken, sentOk, popped, released, cancels, solo>>

\* rb.pop(); the caller keeps the Option
RingPop ==
    /\ phase = "ring"
    /\ LET r == pop(buffer)
       IN  /\ buffer' = r.rb
           /\ r_res' = [r_res EXCEPT !["c1"] =
                            [kind |-> IF r.val = None THEN "None" ELSE "Some", val |-> r.val]]
           /\ popped' = IF r.val = None THEN popped ELSE Append(popped, r.val)
    /\ UNCHANGED <<phase, request, variant, held, waiting_senders, waiting_receivers,
                   sender_count, sender, receiver, spc, value, next, s_local, s_res,
                   rpc, r_local, woken, accepted, sentOk, released, cancels, solo>>

\* rb goes out of scope: Drop for RingBuffer
RingDrop ==
    /\ phase = "ring"
    /\ phase' = "dropped"
    /\ released' = RingBuffer_drop(buffer)
    /\ UNCHANGED <<request, variant, held, shared, tasks, accepted, sentOk, popped, cancels, solo>>

\* ----------------------------------------------------------- specifications

\* the operations of an uncancelled run: every future is polled to completion
Next ==
    \/ \E p \in Producers : SendPoll(p)
    \/ \E p \in Producers : SendReplLoadHead(p)
    \/ \E p \in Producers : SendReplLoadTail(p)
    \/ \E p \in Producers : SendPush(p)
    \/ \E p \in Producers : SendWake(p)
    \/ \E p \in Producers : SendRegister(p)
    \/ \E c \in Consumers : RecvPoll(c)
    \/ \E c \in Consumers : RecvLoadHead(c)
    \/ \E c \in Consumers : RecvLoadTail(c)
    \/ \E c \in Consumers : RecvPop(c)
    \/ \E c \in Consumers : RecvWake(c)
    \/ \E c \in Consumers : RecvRegister(c)
    \/ \E p, q \in Producers : CloneSender(p, q)
    \/ \E p \in Producers : DropSender(p)
    \/ \E c, d \in Consumers : CloneReceiver(c, d)
    \/ \E c \in Consumers : DropReceiver(c)

Spec == Init /\ [][Next]_vars

\* the constructor alone, over every requested capacity
NextNew == Channel

SpecNew == InitNew /\ [][NextNew]_vars

\* runs in which futures are also dropped while pending or polled after completion
NextCancel ==
    \/ Next
    \/ \E p \in Producers : SendPollAgain(p)
    \/ \E p \in Producers : CancelSend(p)
    \/ \E c \in Consumers : CancelRecv(c)

SpecCancel == Init /\ [][NextCancel]_vars

\* a channel whose sends are SendFuture
InitAgain == Init /\ variant = "SendFuture"

\* runs over SendFuture in which a send future that completed may be polled again
NextAgain ==
    \/ \E p \in Producers : SendPoll(p)
    \/ \E p \in Producers : SendPollAgain(p)
    \/ \E p \in Producers : SendPush(p)
    \/ \E p \in Producers : SendWake(p)
    \/ \E p \in Producers : SendRegister(p)
    \/ \E c \in Consumers : RecvPoll(c)
    \/ \E c \in Consumers : RecvLoadHead(c)
    \/ \E c \in Consumers : RecvLoadTail(c)
    \/ \E c \in Consumers : RecvPop(c)
    \/ \E c \in Consumers : RecvWake(c)
    \/ \E c \in Consumers : RecvRegister(c)
    \/ \E p, q \in Producers : CloneSender(p, q)
    \/ \E p \in Producers : DropSender(p)
    \/ \E c, d \in Consumers : CloneReceiver(c, d)
    \/ \E c \in Consumers : DropReceiver(c)

SpecAgain == InitAgain /\ [][NextAgain]_vars

\* runs over SendFuture in which a suspended future may be dropped, leaving
\* its waker in the wait-list
NextStale ==
    \/ \E p \in Producers : SendPoll(p)
    \/ \E p \in Producers : SendPush(p)
    \/ \E p \in Producers : SendWake(p)
    \/ \E p \in Producers : SendRegister(p)
    \/ \E p \in Producers : CancelSend(p)
    \/ \E c \in Consumers : RecvPoll(c)
    \/ \E c \in Consumers : RecvLoadHead(c)
    \/ \E c \in Consumers : RecvLoadTail(c)
    \/ \E c \in Consumers : RecvPop(c)
    \/ \E c \in Consumers : RecvWake(c)
    \/ \E c \in Consumers : RecvRegister(c)
    \/ \E c \in Consumers : CancelRecv(c)
    \/ \E p, q \in Producers : CloneSender(p, q)
    \/ \E p \in Producers : DropSender(p)
    \/ \E c, d \in Consumers : CloneReceiver(c, d)
    \/ \E c \in Consumers : DropReceiver(c)

SpecStale == InitAgain /\ [][NextStale]_vars

\* runs over SendFuture in which suspended futures are also polled unprompted
NextRepoll ==
    \/ \E p \in Producers : SendPoll(p)
    \/ \E p \in Producers : SendRepoll(p)
    \/ \E p \in Producers : SendPush(p)
    \/ \E p \in Producers : SendWake(p)
    \/ \E p \in Producers : SendRegister(p)
    \/ \E c \in Consumers : RecvPoll(c)
    \/ \E c \in Consumers : RecvRepoll(c)
    \/ \E c \in Consumers : RecvLoadHead(c)
    \/ \E c \in Consumers : RecvLoadTail(c)
    \/ \E c \in Consumers : RecvPop(c)
    \/ \E c \in Consumers : RecvWake(c)
    \/ \E c \in Consumers : RecvRegister(c)
    \/ \E p, q \in Producers : CloneSender(p, q)
    \/ \E p \in Producers : DropSender(p)
    \/ \E c, d \in Consumers : CloneReceiver(c, d)
    \/ \E c \in Consumers : DropReceiver(c)

SpecRepoll == InitAgain /\ [][NextRepoll]_vars

\* runs over SendFuture in which taking a mutex is a step of its own and a
\* critical section runs only while its guard is held
NextLocks ==
    \/ \E t \in Tasks : Lock(t)
    \/ \E p \in Producers : SendPoll(p)
    \/ \E p \in Producers : InSection(p) /\ SendPush(p)
    \/ \E p \in Producers : InSection(p) /\ SendWake(p)
    \/ \E p \in Producers : InSection(p) /\ SendRegister(p)
    \/ \E c \in Consumers : RecvPoll(c)
    \/ \E c \in Consumers : RecvLoadHead(c)
    \/ \E c \in Consumers : RecvLoadTail(c)
    \/ \E c \in Consumers : InSection(c) /\ RecvPop(c)
    \/ \E c \in Consumers : InSection(c) /\ RecvWake(c)
    \/ \E c \in Consumers : InSection(c) /\ RecvRegister(c)
    \/ \E p, q \in Producers : CloneSender(p, q)
    \/ \E p \in Producers : DropSender(p)
    \/ \E c, d \in Consumers : CloneReceiver(c, d)
    \/ \E c \in Consumers : DropReceiver(c)

SpecLocks == InitAgain /\ [][NextLocks]_vars

\* a RingBuffer used on its own: any sequence of push and pop calls, then its drop
NextRing == RingPush \/ RingPop \/ RingDrop

SpecRing == InitRing /\ [][NextRing]_vars

\* ------------------------------------------------------------------ claims

Range(seq) == {seq[i] : i \in DOMAIN seq}
NoDup(seq) == \A i, j \in DOMAIN seq : i # j => seq[i] # seq[j]
BagOfSeq(seq) == [v \in Range(seq) |-> Cardinality({i \in DOMAIN seq : seq[i] = v})]

\* values pushed and not yet popped, counted from the history
InBuffer == Len(accepted) - Len(popped)
\* slots holding a value
Initialized == {i \in DOMAIN buffer.buffer : buffer.buffer[i] # Uninit}
Usable == buffer.capacity - 1

\* steps in which a poll returns
RecvReturns(c) == rpc[c] \in RecvMidPoll /\ rpc'[c] \in {"idle", "pending"}
RecvReturnsNone(c) == rpc[c] = "r_tail" /\ rpc'[c] = "idle"

\* C1: no loss, no duplication.  In every state the values whose push was
\* accepted are exactly the values popped so far plus the values resident in
\* the buffer, as multisets; no value is accepted or popped twice; only
\* values handed to send are ever popped; every send that returned Ok had its
\* value accepted, and when no send is between its push and its return the
\* sends that returned Ok are exactly the accepted values.
C1_NoLossNoDuplication ==
    /\ BagOfSeq(accepted) = BagOfSeq(popped) (+) BagOfSeq(Resident(buffer))
    /\ NoDup(accepted) /\ NoDup(popped)
    /\ Range(popped) \subseteq Range(accepted)
    /\ Range(accepted) \subseteq Values
    /\ sentOk \subseteq Range(accepted)
    /\ (\A p \in Producers : spc[p] # "s_wake") => sentOk = Range(accepted)
    /\ (is_empty(buffer) /\ \A p \in Producers : spc[p] # "s_wake")
          => BagOfSeq(popped) = SetToBag(sentOk)

\* every send allowed has returned Ok, values of both producers went through
\* and the channel is drained
C1_Witness ==
    /\ Cardinality(sentOk) = MaxSends
    /\ Len(popped) = MaxSends
    /\ is_empty(buffer)
    /\ \A p \in Producers : \E i \in DOMAIN popped : popped[i][1] = p

\* C2: FIFO per producer.  Two values of one producer leave the buffer in
\* the order that producer sent them.
C2_FifoPerProducer ==
    \A i, j \in DOMAIN popped :
        (i < j /\ popped[i][1] = popped[j][1]) => popped[i][2] < popped[j][2]

\* two values of one producer were popped with a value of the other producer
\* between them, through a buffer of one usable slot
C2_Witness ==
    /\ request = 2
    /\ \E i, j, k \in DOMAIN popped :
          /\ i < k /\ k < j
          /\ popped[i][1] = popped[j][1]
          /\ popped[k][1] # popped[i][1]

\* C3: drain-then-close.  A recv poll that begins after every Sender was
\* dropped, and that no other recv poll overlaps, never returns Pending: it
\* returns Some(v) with v the oldest sent value not yet received, or None when
\* every sent value has been received; all sends have completed by then.
C3_DrainThenClose ==
    [][\A c \in Consumers :
          (RecvReturns(c) /\ ~r_local[c].alive /\ solo[c] /\ solo'[c]) =>
              /\ sentOk = Range(accepted)
              /\ r_res'[c].kind \in {"Some", "None"}
              /\ r_res'[c].kind = "Some" =>
                    /\ Len(popped) <= Len(accepted)
                    /\ r_res'[c].val = accepted[Len(popped)]
              /\ r_res'[c].kind = "None" =>
                    /\ Len(popped) = Len(accepted)
                    /\ Resident(buffer) = <<>>]_vars

\* after the close, an unoverlapped recv has popped the second of three
\* values sent
C3_Witness ==
    \E c \in Consumers :
        /\ rpc[c] = "r_wake" /\ ~r_local[c].alive /\ solo[c]
        /\ NoLiveSender
        /\ Len(accepted) = 3 /\ Len(popped) = 2

\* C4: backpressure blocks.  The buffer never holds more than capacity-1
\* values; a push on a buffer holding capacity-1 values is rejected, leaves
\* the buffer unchanged and hands the value back; the poll then returns
\* Pending with the value stored in the future again; a push is accepted only
\* when fewer than capacity-1 values are resident.
C4_BackpressureBlocks ==
    [][/\ InBuffer' <= Usable'
       /\ Cardinality(Initialized') <= Usable'
       /\ \A p \in Producers :
             /\ (spc[p] = "s_push" /\ spc'[p] # "s_push" /\ value[p] # None
                    /\ InBuffer = Usable) =>
                   /\ spc'[p] = "s_reg"
                   /\ buffer' = buffer /\ accepted' = accepted
                   /\ s_local'[p].val = value[p]
             /\ (spc[p] = "s_reg" /\ spc'[p] # "s_reg") =>
                   /\ spc'[p] = "pending" /\ s_res'[p] = "Pending"
                   /\ value'[p] = s_local[p].val /\ value'[p] # None
                   /\ buffer' = buffer
             /\ (spc[p] = "s_push" /\ spc'[p] = "s_wake") => InBuffer < Usable]_vars

\* a send is suspended, still holding its value, on a buffer that holds
\* capacity-1 values, after an earlier value was popped
C4_Witness ==
    \E p \in Producers :
        /\ spc[p] = "pending" /\ value[p] # None
        /\ request > 1 /\ InBuffer = Usable /\ is_full(buffer)
        /\ Len(popped) > 0

\* C5: backpressure unblocks.  When one send alone is suspended on a buffer
\* that was full at its push, and a recv has since popped a value and finished
\* its wake step, that sender has been woken.
C5_BlockedSendIsWoken ==
    \A p \in Producers :
        ( /\ spc[p] = "pending" /\ value[p] # None
          /\ \A q \in Producers \ {p} : spc[q] = "idle"
          /\ ~is_full(buffer)
          /\ \A c \in Consumers : rpc[c] # "r_wake" )
        => woken[p]

\* C6: no lost wake-up on the receive side.  There is no state in which the
\* buffer holds a value, no Sender is left to push another, and every live
\* Receiver is suspended with no wake pending.
C6_NoStrandedValue ==
    ~ ( /\ ~is_empty(buffer)
        /\ NoLiveSender
        /\ \E c \in Consumers : receiver[c] = "live"
        /\ \A c \in Consumers :
              receiver[c] = "live" => (rpc[c] = "pending" /\ ~woken[c]) )

\* C7: completion is signalled.  Once every Sender has been dropped and the
\* buffer is drained, a suspended recv has a wake pending, so that it is
\* polled again and returns None.
C7_SuspendedRecvIsWoken ==
    \A c \in Consumers :
        (NoLiveSender /\ is_empty(buffer) /\ rpc[c] = "pending") => woken[c]

\* C8: None only when really closed.  In the step in which a recv poll
\* returns Ready(None) no Sender is live, no value is resident and every
\* accepted value has been popped; once no Sender is live none ever is again
\* and no further value is accepted.
C8_NoneOnlyWhenClosed ==
    [][/\ \A c \in Consumers :
             RecvReturnsNone(c) =>
                 /\ r_res'[c].kind = "None"
                 /\ NoLiveSender'
                 /\ is_empty(buffer') /\ Initialized' = {}
                 /\ Len(popped') = Len(accepted')
       /\ NoLiveSender => (NoLiveSender' /\ accepted' = accepted)]_vars

\* a recv returned None after values had gone through the channel
C8_Witness ==
    \E c \in Consumers : r_res[c].kind = "None" /\ Len(popped) >= 2

\* C9: a send through a live Sender never completes with an error, with
\* either send future.
C9_SendNeverErrs ==
    \A p \in Producers :
        /\ s_res[p] \notin {"ErrClosed", "ErrBufferFull"}
        /\ spc[p] # "failed"

\* with every Receiver dropped, one SendFutureRepl poll returned Ok and
\* another returned Pending on the full buffer
C9_Witness ==
    /\ \A c \in Consumers : receiver[c] = "dropped"
    /\ variant = "SendFutureRepl"
    /\ \E p \in Producers : s_res[p] = "Pending" /\ is_full(buffer) /\ sender[p] = "live"
    /\ \E p \in Producers : s_res[p] = "Ok"

\* C10: capacity precondition.  channel(capacity) panics, creating nothing,
\* exactly when capacity is not a power of two; otherwise the channel starts
\* with head = tail = 0, every slot uninitialized, both wait-lists empty and a
\* strong count of 2: the internal reference and the one Sender returned.
RECURSIVE IsPowerOfTwo(_)
IsPowerOfTwo(n) == n = 1 \/ (n > 1 /\ n % 2 = 0 /\ IsPowerOfTwo(n \div 2))
C10_CapacityPrecondition ==
    /\ phase = "panicked" =>
          /\ ~IsPowerOfTwo(request)
          /\ buffer = NoBuffer /\ sender_count = 0
          /\ \A p \in Producers : sender[p] = "none"
          /\ \A c \in Consumers : receiver[c] = "none"
    /\ phase = "open" =>
          /\ IsPowerOfTwo(request)
          /\ buffer.capacity = request
          /\ buffer.head = 0 /\ buffer.tail = 0
          /\ DOMAIN buffer.buffer = 0..(request - 1)
          /\ \A i \in DOMAIN buffer.buffer : buffer.buffer[i] = Uninit
          /\ waiting_senders = <<>> /\ waiting_receivers = <<>>
          /\ sender_count = 2
          /\ Cardinality({p \in Producers : sender[p] = "live"}) = 1
          /\ Cardinality({c \in Consumers : receiver[c] = "live"}) = 1
    /\ (phase # "start" /\ request \in {0, 3, 5, 6}) => phase = "panicked"
    /\ (phase # "start" /\ request \in {1, 2, 4, 64}) => phase = "open"

\* channel(64) returned a channel
C10_Witness == phase = "open" /\ request = 64

\* steps of producer p's poll
SendSteps(p) == spc'[p] # spc[p]

\* C11: a rejected push loses nothing and changes nothing.  A push on a full
\* buffer returns Err carrying the value it was given and leaves head, tail
\* and every slot as they were; the poll then registers, stores that value
\* back in the future and returns Pending; and the poll that retries starts
\* with the same value, the one the send was created with.
C11_RejectedPushKeepsValue ==
    [][\A p \in Producers :
          /\ (spc[p] = "s_push" /\ SendSteps(p) /\ value[p] # None /\ is_full(buffer))
                => /\ spc'[p] = "s_reg"
                   /\ s_local'[p].val = value[p]
                   /\ buffer' = buffer
                   /\ Resident(buffer') = Resident(buffer)
                   /\ accepted' = accepted /\ popped' = popped
          /\ (spc[p] = "s_reg" /\ SendSteps(p))
                => /\ spc'[p] = "pending" /\ s_res'[p] = "Pending"
                   /\ value'[p] = s_local[p].val
                   /\ value'[p] = Val(p, next[p] - 1)
                   /\ value'[p] \notin Range(accepted)
          /\ (spc[p] = "pending" /\ SendSteps(p))
                => /\ value'[p] = value[p]
                   /\ value'[p] = Val(p, next[p] - 1)
      ]_vars

\* a send whose push was rejected by a full buffer of capacity 2 is suspended
\* holding its value again, and has been woken to retry
C11_Witness ==
    \E p \in Producers :
        /\ request = 2
        /\ spc[p] = "pending" /\ s_res[p] = "Pending" /\ woken[p]
        /\ value[p] = Val(p, 2)
        /\ accepted[1] = Val(p, 1)

\* steps in which a poll returns Pending
SendReturnsPending(p) == spc[p] \in {"s_push", "s_reg"} /\ spc'[p] = "pending"
RecvReturnsPending(c) == rpc[c] \in RecvMidPoll /\ rpc'[c] = "pending"

\* C12: suspension happens only at the two stated points.  A poll of a send
\* that has not completed returns Pending only after its push was rejected by
\* a full buffer; a recv poll returns Pending only if, as it returns, the
\* buffer is empty and a Sender is live.  A recv poll that found no Sender
\* live when it began never returns Pending, whatever the other receivers do.
C12_SuspendsOnlyWhenStated ==
    [][/\ \A p \in Producers :
            (SendReturnsPending(p) /\ value'[p] # None)
                => (spc[p] = "s_reg" /\ s_local[p].val = value'[p])
       /\ \A c \in Consumers :
            RecvReturnsPending(c)
                => /\ is_empty(buffer')
                   /\ ~NoLiveSender'
                   /\ r_local[c].alive
      ]_vars

\* the race alone: a recv poll that began with no Sender live returns Pending
C12_ClosedRecvNeverSuspends ==
    [][\A c \in Consumers : RecvReturnsPending(c) => r_local[c].alive]_vars

\* C13: full/empty invariant of the ring buffer.  For every power-of-two
\* capacity, 1 included, head and tail stay in 0..capacity-1; the number of
\* resident values, counted from the pushes and pops made and also as the
\* number of slots holding a value, equals (head - tail) mod capacity and is
\* at most capacity-1; is_empty() holds iff that number is 0 and is_full()
\* iff it is capacity-1; a buffer of capacity 1 is both empty and full and
\* never accepts a value.
C13_FullEmptyInvariant ==
    phase \in {"ring", "open", "dropped"} =>
        /\ is_power_of_two(buffer.capacity)
        /\ buffer.head \in 0..(buffer.capacity - 1)
        /\ buffer.tail \in 0..(buffer.capacity - 1)
        /\ InBuffer = (buffer.head - buffer.tail + buffer.capacity) % buffer.capacity
        /\ Cardinality(Initialized) = InBuffer
        /\ Len(Resident(buffer)) = InBuffer
        /\ InBuffer \in 0..Usable
        /\ is_empty(buffer) <=> InBuffer = 0
        /\ is_empty(buffer) <=> buffer.head = buffer.tail
        /\ is_full(buffer) <=> InBuffer = Usable
        /\ buffer.capacity = 1 => (is_empty(buffer) /\ is_full(buffer) /\ accepted = <<>>)

\* a buffer of capacity 4 is full with head wrapped behind tail, after
\* a push was rejected
C13_Witness ==
    /\ phase = "ring" /\ buffer.capacity = 4
    /\ buffer.head < buffer.tail
    /\ is_full(buffer) /\ InBuffer = 3
    /\ s_res["p1"] = "Err"

\* the bounded FIFO queue the calls made so far define: the values accepted,
\* less those already handed out, oldest first
AbsQueue == SubSeq(accepted, Len(popped) + 1, Len(accepted))

\* the calls on a buffer used directly
RingPushCall == phase = "ring" /\ phase' = "ring" /\ next'["p1"] = next["p1"] + 1
RingPopCall == phase = "ring" /\ phase' = "ring" /\ next' = next

\* C14: the ring buffer refines a bounded FIFO queue.  Over every sequence of
\* push and pop calls the buffer holds exactly the abstract queue, a sequence
\* of at most capacity-1 values; push appends to it, or is rejected with its
\* value when the queue has capacity-1 values; pop removes and returns its
\* oldest value, or returns None on the empty queue and leaves head and tail
\* as they were.
C14_RefinesBoundedFifo ==
    [][/\ Resident(buffer) = AbsQueue
       /\ Len(AbsQueue) <= Usable
       /\ RingPushCall =>
            LET v == Val("p1", next["p1"])
            IN  IF Len(AbsQueue) < Usable
                THEN /\ s_res'["p1"] = "Ok"
                     /\ AbsQueue' = Append(AbsQueue, v)
                     /\ Resident(buffer') = Append(AbsQueue, v)
                ELSE /\ s_res'["p1"] = "Err" /\ s_local'["p1"].val = v
                     /\ AbsQueue' = AbsQueue
                     /\ buffer' = buffer
       /\ RingPopCall =>
            IF AbsQueue = <<>>
            THEN /\ r_res'["c1"] = [kind |-> "None", val |-> None]
                 /\ buffer'.head = buffer.head /\ buffer'.tail = buffer.tail
                 /\ AbsQueue' = <<>>
            ELSE /\ r_res'["c1"] = [kind |-> "Some", val |-> Head(AbsQueue)]
                 /\ AbsQueue' = Tail(AbsQueue)
                 /\ Resident(buffer') = Tail(AbsQueue)
      ]_vars

\* on a buffer of capacity 4 whose cursors have both wrapped, a pop returned
\* the fifth value pushed while the sixth is still queued
C14_Witness ==
    /\ phase = "ring" /\ buffer.capacity = 4
    /\ Len(popped) = 5 /\ Len(AbsQueue) = 1
    /\ r_res["c1"] = [kind |-> "Some", val |-> accepted[5]]

\* slots other than slot i are untouched by the step
OtherSlotsKept(i) ==
    /\ DOMAIN buffer'.buffer = DOMAIN buffer.buffer
    /\ \A j \in DOMAIN buffer.buffer : j # i => buffer'.buffer[j] = buffer.buffer[j]

\* C15: cursor wrap-around.  After p successful pushes and q successful pops
\* on a buffer of capacity C, head = p mod C and tail = q mod C.  A successful
\* push changes head and the slot at the old head and nothing else; a
\* successful pop changes tail, moving the value out of the slot at the old
\* tail, and nothing else.  On capacity 4, three pushes, one pop and one push
\* give head = 0, tail = 1 and a full buffer.
C15_CursorWrapAround ==
    [][/\ buffer.head = Len(accepted) % buffer.capacity
       /\ buffer.tail = Len(popped) % buffer.capacity
       /\ (RingPushCall /\ s_res'["p1"] = "Ok")
            => /\ buffer'.head = (buffer.head + 1) % buffer.capacity
               /\ buffer'.head = Len(accepted') % buffer.capacity
               /\ buffer'.tail = buffer.tail
               /\ buffer'.capacity = buffer.capacity
               /\ buffer'.buffer[buffer.head] = Val("p1", next["p1"])
               /\ OtherSlotsKept(buffer.head)
       /\ (RingPopCall /\ Len(popped') = Len(popped) + 1)
            => /\ buffer'.tail = (buffer.tail + 1) % buffer.capacity
               /\ buffer'.tail = Len(popped') % buffer.capacity
               /\ buffer'.head = buffer.head
               /\ buffer'.capacity = buffer.capacity
               /\ OtherSlotsKept(buffer.tail)
       /\ (buffer.capacity = 4 /\ Len(accepted) = 4 /\ Len(popped) = 1)
            => (buffer.head = 0 /\ buffer.tail = 1 /\ is_full(buffer))
      ]_vars

\* capacity 4 after three pushes, one pop and one more push, none rejected
C15_Witness ==
    /\ phase = "ring" /\ buffer.capacity = 4
    /\ Len(accepted) = 4 /\ Len(popped) = 1 /\ next["p1"] = 5
    /\ buffer.head = 0 /\ buffer.tail = 1
    /\ s_res["p1"] = "Ok"

\* the half-open cyclic range [tail, head) of slot indices
LiveRange ==
    {i \in 0..(buffer.capacity - 1) :
        (i - buffer.tail + buffer.capacity) % buffer.capacity
            < (buffer.head - buffer.tail + buffer.capacity) % buffer.capacity}
RingDropCall == phase = "ring" /\ phase' = "dropped"

\* C16: live-range invariant.  While the buffer exists a slot holds a value
\* iff its index lies in the cyclic range [tail, head).  A push that succeeds
\* writes the slot at head, which lies outside the range and holds no value;
\* a pop that succeeds reads the slot at tail, which lies inside it; the
\* destructor releases the slots of the range and no other.  No slot without
\* a value is ever returned or released.
C16_LiveRange ==
    [][/\ phase = "ring" => Initialized = LiveRange
       /\ Uninit \notin Range(popped) /\ Uninit \notin Range(released)
       /\ (RingPushCall /\ s_res'["p1"] = "Ok")
            => /\ buffer.head \notin LiveRange
               /\ buffer.buffer[buffer.head] = Uninit
               /\ LiveRange' = LiveRange \cup {buffer.head}
               /\ OtherSlotsKept(buffer.head)
       /\ (RingPopCall /\ Len(popped') = Len(popped) + 1)
            => /\ buffer.tail \in LiveRange
               /\ r_res'["c1"].val = buffer.buffer[buffer.tail]
               /\ r_res'["c1"].val # Uninit
               /\ LiveRange' = LiveRange \ {buffer.tail}
       /\ RingDropCall
            => /\ Len(released') = Cardinality(LiveRange)
               /\ Range(released') = {buffer.buffer[i] : i \in LiveRange}
               /\ Uninit \notin Range(released')
      ]_vars

\* a buffer of capacity 4 was dropped while its live range wrapped past the
\* last slot and one slot inside the buffer held no value
C16_Witness ==
    /\ phase = "dropped" /\ buffer.capacity = 4
    /\ buffer.head < buffer.tail
    /\ Len(released) = 2
    /\ LiveRange = {3, 0}

LiveHandles ==
    {p \in Producers : sender[p] = "live"} \cup {c \in Consumers : receiver[c] = "live"}

\* C17: exactly-once release.  Every value whose push succeeded is released
\* exactly once: handed to the caller of one pop, or released by the buffer's
\* destructor.  The destructor runs only in the step that drops the last
\* handle, Sender or Receiver; it walks from tail to head, ends, and releases
\* exactly the values then resident.  Nothing is released twice, and once the
\* channel is gone every accepted value has been released.
C17_ExactlyOnceRelease ==
    [][/\ NoDup(accepted) /\ NoDup(popped) /\ NoDup(released)
       /\ Range(popped) \cap Range(released) = {}
       /\ Range(popped) \cup Range(released) \subseteq Range(accepted)
       /\ Uninit \notin Range(popped) \cup Range(released)
       /\ phase = "open" => (released = <<>> /\ LiveHandles # {})
       /\ phase = "dropped"
            => /\ LiveHandles = {}
               /\ BagOfSeq(accepted) = BagOfSeq(popped) (+) BagOfSeq(released)
       /\ (phase = "open" /\ phase' = "dropped")
            => /\ Cardinality(LiveHandles) = 1 /\ LiveHandles' = {}
               /\ released' = Resident(buffer)
               /\ Len(released') = InBuffer
               /\ popped' = popped /\ accepted' = accepted
       /\ (phase = "open" /\ LiveHandles' = {}) => phase' = "dropped"
      ]_vars

\* the last handle of a channel of capacity 4 was dropped with one value
\* popped and two still resident, which the destructor released
C17_Witness ==
    /\ phase = "dropped" /\ request = 4
    /\ Len(accepted) = 3 /\ Len(popped) = 1
    /\ released = <<accepted[2], accepted[3]>>

\* the tasks a step wakes
WokenBy == {t \in Tasks : woken'[t] /\ ~woken[t]}

\* C18: wake-one, FIFO wake order.  The step of a send poll that follows a
\* successful push removes the front entry of waiting_receivers and wakes
\* that task and no other, or wakes nobody when the list is empty; the step
\* of a recv poll that follows a successful pop does the same with
\* waiting_senders.  A poll that suspends appends its own waker at the back
\* of its list and wakes no one.  So the entries of one list are woken in
\* the order they were registered.
C18_WakeOneFifo ==
    [][/\ \A p \in Producers :
            /\ (spc[p] = "s_wake" /\ SendSteps(p))
                 => /\ waiting_senders' = waiting_senders
                    /\ IF waiting_receivers = <<>>
                       THEN waiting_receivers' = <<>> /\ woken' = woken
                       ELSE /\ waiting_receivers' = Tail(waiting_receivers)
                            /\ woken' = [woken EXCEPT ![Head(waiting_receivers)] = TRUE]
                            /\ WokenBy \subseteq {Head(waiting_receivers)}
            /\ SendReturnsPending(p)
                 => /\ waiting_receivers' = waiting_receivers
                    /\ WokenBy = {} /\ woken' = woken
                    /\ waiting_senders' = Append(waiting_senders, p)
       /\ \A c \in Consumers :
            /\ (rpc[c] = "r_wake" /\ rpc'[c] # "r_wake")
                 => /\ waiting_receivers' = waiting_receivers
                    /\ IF waiting_senders = <<>>
                       THEN waiting_senders' = <<>> /\ woken' = woken
                       ELSE /\ waiting_senders' = Tail(waiting_senders)
                            /\ woken' = [woken EXCEPT ![Head(waiting_senders)] = TRUE]
                            /\ WokenBy \subseteq {Head(waiting_senders)}
            /\ RecvReturnsPending(c)
                 => /\ waiting_senders' = waiting_senders
                    /\ WokenBy = {} /\ woken' = woken
                    /\ waiting_receivers' = Append(waiting_receivers, c)
      ]_vars

\* two receivers are suspended; a send whose push succeeded woke c2 from the
\* front of waiting_receivers and no one else; c1's entry is in the list
C18_Witness ==
    /\ rpc["c1"] = "pending" /\ rpc["c2"] = "pending"
    /\ woken["c2"] /\ ~woken["c1"]
    /\ waiting_receivers = <<"c1">>
    /\ Len(accepted) = 1 /\ sentOk # {}

LiveSenders == {p \in Producers : sender[p] = "live"}

\* C19: producer-liveness counter invariant.  While the channel exists the
\* strong count of sender_count is 1 plus the number of live Sender handles,
\* after any clones and drops of handles; a step that clones or drops a
\* Receiver leaves it unchanged; it is never below 1; and once it is 1 it
\* stays 1, since no Sender is left to clone.
C19_SenderCountInvariant ==
    [][/\ phase = "open" => sender_count = 1 + Cardinality(LiveSenders)
       /\ sender_count >= 1
       /\ receiver' # receiver => sender_count' = sender_count
       /\ sender' # sender => sender_count' = 1 + Cardinality(LiveSenders')
       /\ sender_count = 1 => (sender_count' = 1 /\ LiveSenders = {} /\ LiveSenders' = {})
      ]_vars

\* the Sender was cloned and both Senders were dropped while two Receivers
\* are live: the count is back to 1
C19_Witness ==
    /\ phase = "open" /\ sender_count = 1
    /\ sender = [p \in Producers |-> "dropped"]
    /\ receiver = [c \in Consumers |-> "live"]

\* producer p's send future has returned Ready(Ok(())) and was not replaced
Completed(p) == next[p] > 1 /\ Val(p, next[p] - 1) \in sentOk
\* how often value v was accepted by the buffer
TimesAccepted(v) == Cardinality({i \in DOMAIN accepted : accepted[i] = v})

\* C20: poll after completion is inert.  Once a send future has returned
\* Ready(Ok(())) it holds no value; every step of a further poll of it leaves
\* the buffer, both wait-lists and every wake flag as they were, and the poll
\* returns Pending.  So the value of a send is accepted by the buffer at most
\* once.
C20_PollAfterCompletionInert ==
    [][\A p \in Producers :
          /\ Completed(p) => (value[p] = None /\ TimesAccepted(Val(p, next[p] - 1)) = 1)
          /\ \A v \in Range(accepted) : TimesAccepted(v) = 1
          /\ (Completed(p) /\ SendSteps(p) /\ next'[p] = next[p])
                => /\ buffer' = buffer
                   /\ accepted' = accepted /\ sentOk' = sentOk
                   /\ waiting_senders' = waiting_senders
                   /\ waiting_receivers' = waiting_receivers
                   /\ WokenBy = {}
                   /\ value'[p] = None
                   /\ spc'[p] \in {"s_push", "pending"}
                   /\ spc[p] = "s_push" => (spc'[p] = "pending" /\ s_res'[p] = "Pending")
      ]_vars

\* a send future that completed was polled again and returned Pending, while
\* a receiver is registered in waiting_receivers and the buffer has a free slot
C20_Witness ==
    \E p \in Producers :
        /\ Completed(p) /\ spc[p] = "pending" /\ s_res[p] = "Pending"
        /\ value[p] = None
        /\ p \notin Range(waiting_senders)
        /\ waiting_receivers # <<>>
        /\ ~is_full(buffer)

\* the tasks suspended on a future whose waker is registered, with no wake pending
SuspendedSenders ==
    {p \in Producers : spc[p] = "pending" /\ value[p] # None
                         /\ p \in Range(waiting_senders) /\ ~woken[p]}
SuspendedReceivers ==
    {c \in Consumers : rpc[c] = "pending" /\ c \in Range(waiting_receivers) /\ ~woken[c]}

\* every task but t is outside a poll
OthersQuiet(t) ==
    /\ \A p \in Producers \ {t} : spc[p] \in {"idle", "pending"}
    /\ \A c \in Consumers \ {t} : rpc[c] \in {"idle", "pending"}

\* C21: a stale wake is harmless.  When suspended futures are dropped with
\* their wakers still registered, no value is lost or duplicated and no send
\* reports an error.  And when a recv that popped a value makes its wake
\* while senders are suspended and registered and no other poll is running,
\* one of those senders has a wake pending afterwards, whether or not wakers
\* of dropped futures are in the list; likewise for a send that pushed a
\* value and the suspended receivers.
C21_StaleWakeHarmless ==
    [][/\ BagOfSeq(accepted) = BagOfSeq(popped) (+) BagOfSeq(Resident(buffer))
       /\ NoDup(accepted) /\ NoDup(popped)
       /\ \A p \in Producers : s_res[p] # "ErrClosed"
       /\ \A c \in Consumers :
            (rpc[c] = "r_wake" /\ rpc'[c] = "idle" /\ OthersQuiet(c)
               /\ SuspendedSenders # {})
                => \E p \in SuspendedSenders : woken'[p]
       /\ \A p \in Producers :
            (spc[p] = "s_wake" /\ spc'[p] = "idle" /\ OthersQuiet(p)
               /\ SuspendedReceivers # {})
                => \E c \in SuspendedReceivers : woken'[c]
      ]_vars

\* how many entries of list belong to task t
Entries(list, t) == Cardinality({i \in DOMAIN list : list[i] = t})

\* C22: wait-lists do not grow without bound.  A suspended send or recv that
\* is polled again and still cannot proceed is not registered a second time:
\* no task has two entries in a wait-list, a list is never longer than the
\* number of operations of its side that have not completed,
\* and the wake of a successful push or pop never goes to a task that had a
\* wake pending already.
C22_NoDuplicateRegistration ==
    [][/\ \A p \in Producers : Entries(waiting_senders, p) <= 1
       /\ \A c \in Consumers : Entries(waiting_receivers, c) <= 1
       /\ Len(waiting_senders)
            <= Cardinality({p \in Producers : spc[p] # "idle"})
       /\ Len(waiting_receivers)
            <= Cardinality({c \in Consumers : rpc[c] # "idle"})
       /\ \A c \in Consumers :
            (rpc[c] = "r_wake" /\ rpc'[c] = "idle" /\ waiting_senders # <<>>)
                => ~woken[Head(waiting_senders)]
       /\ \A p \in Producers :
            (spc[p] = "s_wake" /\ spc'[p] = "idle" /\ waiting_receivers # <<>>)
                => ~woken[Head(waiting_receivers)]
      ]_vars

LocksHeld == UNION {held[t] : t \in Tasks}

\* C23: lock independence and deadlock freedom.  No task ever holds more
\* than one of the three locks; no lock has two holders; a task outside a
\* poll, or at a step of a poll that needs no lock, holds none, so every lock
\* is released before the poll returns; a task that holds a lock is inside
\* the critical section of that lock and needs no other lock to leave it; so
\* whenever a task is blocked on a lock, the holder of that lock is itself
\* not blocked and no set of tasks waits on each other's locks.
C23_LockIndependence ==
    /\ \A t \in Tasks : held[t] \subseteq Locks /\ Cardinality(held[t]) <= 1
    /\ \A t, u \in Tasks : t # u => held[t] \cap held[u] = {}
    /\ \A t \in Tasks : ~AtLock(t) => held[t] = {}
    /\ \A t \in Tasks : held[t] # {} => (InSection(t) /\ held[t] = {LockAt[pc(t)]})
    /\ \A t \in Tasks :
          Blocked(t) => \E u \in Tasks \ {t} :
                            /\ LockAt[pc(t)] \in held[u]
                            /\ InSection(u) /\ ~Blocked(u)

\* all three locks are held at once, by three tasks, and the fourth task is
\* blocked on one of them
C23_Witness ==
    /\ LocksHeld = Locks
    /\ \E t \in Tasks : Blocked(t)
====
